---- MODULE Spec2Model ----
(***************************************************************************)
(* The buffer-driven ABR engine of src/src/player.js (class BufferManager) *)
(* as a state machine.  The file holds two definitions of the class; the   *)
(* variable impl says which of the two an engine instance is built from    *)
(* (1: lines 95-338, 2: lines 368-582).                                    *)
(*                                                                         *)
(* Units.  Buffer fullness samples are given in hundredths (84 = 0.84),    *)
(* bufferLevel in tenths (8 = "0.8", what toFixed(1) produces), times in   *)
(* milliseconds.  A variant is a record with its bandwidth.                *)
(***************************************************************************)
EXTENDS Integers, Sequences, FiniteSets, TLC

VARIABLES
  impl,                        \* which definition of BufferManager is running
  switchQualityCallback,       \* "null" or "cb"
  videoVariants,               \* this.videoVariants, in the array's own order
  config_,                     \* this.config_: Null or the shared config object
  currentQualityIndex,
  bufferLevel,
  downloadedSegments,
  failedSegments,
  lastDownloadedSegmentsCount, \* -1 while the field is still undefined
  now,                         \* Date.now()
  stopped,                     \* stop() has returned and init() was not called since
  hostSamples,                 \* what getBufferFullness() gives from now on:
                               \* "any", or only "above" the high threshold,
                               \* or only "below" the low one
  out                          \* what the last handler did that the host can see

vars == <<impl, switchQualityCallback, videoVariants, config_,
          currentQualityIndex, bufferLevel, downloadedSegments, failedSegments,
          lastDownloadedSegmentsCount, now, stopped, hostSamples, out>>

----------------------------------------------------------------------------
\* Bound of the model: the telemetry events of a run (segments recorded,
\* failures recorded and ticks of the monitor's timer) are at most this many.
MaxEvents == 2

\* Thresholds of the engine, in tenths.
lowBufferThreshold == 3
highBufferThreshold == 8

\* JavaScript's null and undefined.
Null == [null |-> TRUE]
Undefined == [undefined |-> TRUE]
\* The statistics sink (DisplayStats) was not constructed by a handler.
NotInvoked == [notInvoked |-> TRUE]
\* The number NaN: what arithmetic on undefined gives.
NaN == [nan |-> TRUE]

\* What the host hands in.
Samples == {10, 26, 84, 90}
Catalogs == { <<>>,
              <<[bandwidth |-> 100]>>,
              <<[bandwidth |-> 100], [bandwidth |-> 500], [bandwidth |-> 1000]>>,
              <<[bandwidth |-> 1000], [bandwidth |-> 100], [bandwidth |-> 500]>> }
Configs == { [safeMarginSwitch |-> 0, clearBufferSwitch |-> FALSE,
              restrictToScreenSize |-> FALSE,
              restrictions |-> [maxBandwidth |-> 2000]],
             [safeMarginSwitch |-> 1, clearBufferSwitch |-> TRUE,
              restrictToScreenSize |-> FALSE,
              restrictions |-> [maxBandwidth |-> 2000]] }
\* A request, or undefined (the parameter is optional).  timeToFirstByte 0
\* stands for a missing one as well: the code reads it as (timeToFirstByte || 0).
Requests == { Undefined, [contentType |-> "video", timeToFirstByte |-> 10] }
\* The samples getBufferFullness() gives while the host's buffer is as said.
Fullness(regime) ==
  CASE regime = "any" -> Samples
    [] regime = "above" -> { s \in Samples : (s + 5) \div 10 > highBufferThreshold }
    [] regime = "below" -> { s \in Samples : (s + 5) \div 10 < lowBufferThreshold }
DeltaTimes == {10}
Responses == { [uri |-> "seg1", status |-> 200], [uri |-> "seg2", status |-> 399],
               [uri |-> "seg3", status |-> 400] }

----------------------------------------------------------------------------
\* Number.prototype.toFixed(1) on a sample given in hundredths: the nearest
\* tenth.  The samples used avoid the ties (x.x5), where the binary value of
\* the number decides.
toFixed1(h) == (h + 5) \div 10

\* Array.prototype.sort((a, b) => a.bandwidth - b.bandwidth): ascending, stable.
RECURSIVE InsertByBandwidth(_, _)
InsertByBandwidth(v, sorted) ==
  IF sorted = <<>> THEN <<v>>
  ELSE IF v.bandwidth < Head(sorted).bandwidth THEN <<v>> \o sorted
  ELSE <<Head(sorted)>> \o InsertByBandwidth(v, Tail(sorted))

RECURSIVE SortByBandwidth(_)
SortByBandwidth(vs) ==
  IF vs = <<>> THEN <<>>
  ELSE InsertByBandwidth(vs[Len(vs)], SortByBandwidth(SubSeq(vs, 1, Len(vs) - 1)))

\* The arrays videoVariants can hold: what the host hands in, as handed in or
\* after the sort; and the result of the sort on each of them.
Arrays == Catalogs \cup { SortByBandwidth(c) : c \in Catalogs }
sortedVariants == [vs \in Arrays |-> SortByBandwidth(vs)]

\* sortedVariants[qualityIndex]: undefined when there is no such element.
ElementAt(arr, i) == IF i \in 0..(Len(arr) - 1) THEN arr[i + 1] ELSE Undefined

\* getVariantByQualityIndex with a plausible fault: the lookup skips the sort.
getVariantByQualityIndex_nosort(variants, qualityIndex) == ElementAt(variants, qualityIndex)

getVariantByQualityIndex(variants, qualityIndex) ==
  ElementAt(sortedVariants[variants], qualityIndex)

\* isLowBuffer with a plausible fault: the threshold itself counts as low.
isLowBuffer_inclusive(level) == level <= lowBufferThreshold

isLowBuffer(level) == level < lowBufferThreshold

isHighBuffer(level) == level > highBufferThreshold

\* canDecrease with a plausible fault: the downward step stops one rank early.
canDecrease_aboveOne(idx) == idx > 1

canDecrease(idx) == idx > 0

\* maxQualityIndex with a plausible fault: the length taken as the highest rank.
maxQualityIndex_length(variants) == Len(variants)

maxQualityIndex(variants) == Len(variants) - 1

----------------------------------------------------------------------------
(***************************************************************************)
(* The methods that run inside one handler work on a record e of the       *)
(* engine's fields: idx, level, vv (videoVariants), cfg (config_), cb, and *)
(* what the handler has done so far: err (a TypeError was thrown and the   *)
(* handler was left there), thrownIn (the method that threw it), sel (what *)
(* chooseVariant returned), calls (the switch callback's invocations),     *)
(* evals (startMonitoringBuffer calls).                                    *)
(***************************************************************************)
Engine ==
  [idx |-> currentQualityIndex, level |-> bufferLevel, vv |-> videoVariants,
   cfg |-> config_, cb |-> switchQualityCallback, def |-> impl,
   err |-> FALSE, thrownIn |-> "", sel |-> Undefined, calls |-> <<>>,
   evals |-> 0]

Throw(e, method) == [e EXCEPT !.err = TRUE, !.thrownIn = method]

\* restrictions with a plausible fault: without a configuration the cap is
\* silently not written.
restrictions_guarded(e, bandwidth) ==
  IF e.cfg = Null THEN e
  ELSE [e EXCEPT !.cfg.restrictions.maxBandwidth = bandwidth]

\* restrictions(bandwidth): this.config_.restrictions.maxBandwidth = bandwidth
restrictions(e, bandwidth) ==
  IF e.cfg = Null THEN Throw(e, "restrictions")
  ELSE [e EXCEPT !.cfg.restrictions.maxBandwidth = bandwidth]

\* The step both decreaseQuality and increaseQuality (method) end with: look
\* the new rank up (sorting the array in place), read its bandwidth, write
\* the cap.
restrictToRank(e, method) ==
  LET v == getVariantByQualityIndex(e.vv, e.idx)
      sorted == [e EXCEPT !.vv = sortedVariants[e.vv]]
  IN  IF v = Undefined THEN Throw(sorted, method)
      ELSE restrictions(sorted, v.bandwidth)

decreaseQuality(e) ==
  IF canDecrease(e.idx)
  THEN restrictToRank([e EXCEPT !.idx = e.idx - 1], "decreaseQuality")
  ELSE e

\* this.config_.restrictToScreenSize = true, the last statement of the
\* second definition's increaseQuality; r is the engine after restrictions().
restrictToScreenSize(r) ==
  IF r.err \/ r.def = 1 THEN r
  ELSE IF r.cfg = Null THEN Throw(r, "increaseQuality")
  ELSE [r EXCEPT !.cfg.restrictToScreenSize = TRUE]

increaseQuality(e) ==
  IF e.idx < maxQualityIndex(e.vv)
  THEN restrictToScreenSize(
         restrictToRank([e EXCEPT !.idx = e.idx + 1], "increaseQuality"))
  ELSE e

\* return this.getVariantByQualityIndex(this.currentQualityIndex), the last
\* statement of chooseVariant; stepped is the engine after the step.
returnVariant(stepped) ==
  IF stepped.err THEN stepped
  ELSE [stepped EXCEPT !.sel = getVariantByQualityIndex(stepped.vv, stepped.idx),
                       !.vv = sortedVariants[stepped.vv]]

chooseVariant(e) ==
  returnVariant(IF isLowBuffer(e.level) THEN decreaseQuality(e)
                ELSE IF isHighBuffer(e.level) THEN increaseQuality(e)
                ELSE e)

\* if (chosenVariant) this.switchQualityCallback(...), the last statement of
\* startMonitoringBuffer; chosen is the engine after chooseVariant().
switchQuality(chosen) ==
  IF chosen.err \/ chosen.sel = Undefined THEN chosen
  ELSE IF chosen.cfg = Null \/ chosen.cb = "null"
       THEN Throw(chosen, "startMonitoringBuffer")
  ELSE [chosen EXCEPT !.calls = Append(chosen.calls,
             [variant |-> chosen.sel,
              safeMarginSwitch |-> chosen.cfg.safeMarginSwitch,
              clearBufferSwitch |-> chosen.cfg.clearBufferSwitch])]

\* startMonitoringBuffer() with the host's getBufferFullness() giving sample.
startMonitoringBuffer(e, sample) ==
  switchQuality(chooseVariant(
    [e EXCEPT !.level = toFixed1(sample), !.evals = e.evals + 1]))

----------------------------------------------------------------------------
\* Telemetry.
RECURSIVE SumLatency(_)
SumLatency(segs) ==
  IF segs = <<>> THEN 0 ELSE Head(segs).latency + SumLatency(Tail(segs))

RECURSIVE Gcd(_, _)
Gcd(a, b) == IF b = 0 THEN a ELSE Gcd(b, a % b)

\* sum / latencies.length, kept exact as a fraction in lowest terms.
Quotient(sum, n) == [num |-> sum \div Gcd(sum, n), den |-> n \div Gcd(sum, n)]

Latencies(segs) == { segs[i].latency : i \in 1..Len(segs) }

\* A record addSegment pushed has no latency: segment.latency is undefined.
hasLatency(segment) == "latency" \in DOMAIN segment

\* With an undefined among the latencies the sum, Math.max and Math.min are NaN.
getLatencyStatistics(segs) ==
  IF Len(segs) = 0 THEN Null
  ELSE IF \E i \in 1..Len(segs) : ~hasLatency(segs[i])
  THEN [averageLatency |-> NaN, maxLatency |-> NaN, minLatency |-> NaN]
  ELSE [averageLatency |-> Quotient(SumLatency(segs), Len(segs)),
        maxLatency |-> CHOOSE m \in Latencies(segs) : \A l \in Latencies(segs) : l <= m,
        minLatency |-> CHOOSE m \in Latencies(segs) : \A l \in Latencies(segs) : m <= l]

\* The record segmentDownloaded pushes; the first definition adds the delay.
segmentData(def, deltaTimeMs, request, requestStartTime, time) ==
  IF def = 1
  THEN [contentType |-> request.contentType, timestamp |-> time,
        latency |-> deltaTimeMs + request.timeToFirstByte,
        delay |-> time - requestStartTime + request.timeToFirstByte]
  ELSE [contentType |-> request.contentType, timestamp |-> time,
        latency |-> deltaTimeMs + request.timeToFirstByte]

\* The tick's filter: the segments of the last 5000 ms.  A record without a
\* timestamp (addSegment's) fails the comparison: NaN <= 5000 is false.
recentSegments(segs, currentTime) ==
  SelectSeq(segs, LAMBDA segment :
    /\ "timestamp" \in DOMAIN segment
    /\ currentTime - segment.timestamp <= 5000)

\* isFailure with a plausible fault: 400 itself is let through.
isFailure_above400(status) == status > 400

isFailure(status) == status >= 400

\* evaluatesOnDownload with a plausible fault: allowSwitch is not looked at.
evaluatesOnDownload_always(allowSwitch) == TRUE

evaluatesOnDownload(allowSwitch) == allowSwitch

\* setInterval's period: 1000 ms in the first definition, 5000 ms in the second.
monitorPeriod(def) == IF def = 1 THEN 1000 ELSE 5000

----------------------------------------------------------------------------
\* The telemetry events of the run so far.
TelemetryEvents ==
  Len(downloadedSegments) + Len(failedSegments) + now \div monitorPeriod(impl)

\* What a handler leaves behind for the host to see.
\* op is the handler, allowSwitch the argument of segmentDownloaded (FALSE
\* for the other handlers).
Seen(op, allowSwitch, e, report) ==
  [op |-> op, allowSwitch |-> allowSwitch, evals |-> e.evals, sel |-> e.sel,
   calls |-> e.calls, err |-> e.err, thrownIn |-> e.thrownIn, report |-> report]

\* The engine's fields after a handler that ran the methods above.
Store(e) ==
  /\ currentQualityIndex' = e.idx
  /\ bufferLevel' = e.level
  /\ videoVariants' = e.vv
  /\ config_' = e.cfg

\* new BufferManager(...): the fields, then startMonitoring(),
\* startMonitoringBuffer() on an empty catalog and (first definition)
\* setupErrorHandling().
Init ==
  /\ impl \in {1, 2}
  /\ switchQualityCallback = "null"
  /\ videoVariants = <<>>
  /\ config_ = Null
  /\ currentQualityIndex = 0
  /\ \E sample \in Samples : bufferLevel = toFixed1(sample)
  /\ out = [op |-> "constructor", allowSwitch |-> FALSE, evals |-> 1,
            sel |-> Undefined, calls |-> <<>>, err |-> FALSE, thrownIn |-> "",
            report |-> NotInvoked]
  /\ downloadedSegments = <<>>
  /\ failedSegments = <<>>
  /\ lastDownloadedSegmentsCount = -1
  /\ now = 0
  /\ stopped = FALSE
  /\ hostSamples = "any"

\* init(switchQualityCallback)
InitEngine ==
  /\ switchQualityCallback' = "cb"
  /\ stopped' = FALSE
  /\ out' = Seen("init", FALSE, Engine, NotInvoked)
  /\ UNCHANGED <<impl, hostSamples, videoVariants, config_, currentQualityIndex, bufferLevel,
                 downloadedSegments, failedSegments, lastDownloadedSegmentsCount, now>>

\* configure(config)
Configure ==
  \E config \in Configs :
    /\ config_' = config
    /\ out' = Seen("configure", FALSE, Engine, NotInvoked)
    /\ UNCHANGED <<impl, hostSamples, switchQualityCallback, videoVariants, currentQualityIndex,
                   bufferLevel, downloadedSegments, failedSegments,
                   lastDownloadedSegmentsCount, now, stopped>>

\* setVariants(variants)
SetVariants ==
  \E variants \in Catalogs :
    /\ videoVariants' = variants
    /\ out' = Seen("setVariants", FALSE, Engine, NotInvoked)
    /\ UNCHANGED <<impl, hostSamples, switchQualityCallback, config_, currentQualityIndex,
                   bufferLevel, downloadedSegments, failedSegments,
                   lastDownloadedSegmentsCount, now, stopped>>

\* stop() with a plausible fault: the telemetry is reset as well.
Stop_resetsTelemetry ==
  /\ switchQualityCallback' = "null"
  /\ videoVariants' = <<>>
  /\ stopped' = TRUE
  /\ downloadedSegments' = <<>>
  /\ failedSegments' = <<>>
  /\ out' = Seen("stop", FALSE, Engine, NotInvoked)
  /\ UNCHANGED <<impl, hostSamples, config_, currentQualityIndex, bufferLevel,
                 lastDownloadedSegmentsCount, now>>

\* stop(): the callback and the variants go; the interval is not cleared.
Stop ==
  /\ switchQualityCallback' = "null"
  /\ videoVariants' = <<>>
  /\ stopped' = TRUE
  /\ out' = Seen("stop", FALSE, Engine, NotInvoked)
  /\ UNCHANGED <<impl, hostSamples, config_, currentQualityIndex, bufferLevel,
                 downloadedSegments, failedSegments, lastDownloadedSegmentsCount, now>>

\* The host (or the engine itself) calls startMonitoringBuffer(): the spec's
\* evaluateBuffer.
EvaluateBuffer ==
  \E sample \in Fullness(hostSamples) :
    LET e == startMonitoringBuffer(Engine, sample)
    IN  /\ Store(e)
        /\ out' = Seen("startMonitoringBuffer", FALSE, e, NotInvoked)
        /\ UNCHANGED <<impl, hostSamples, switchQualityCallback, downloadedSegments,
                       failedSegments, lastDownloadedSegmentsCount, now, stopped>>

\* The host calls chooseVariant() itself (it is part of the ABR manager
\* interface): the decision is taken on the bufferLevel last stored.
ChooseVariantCall ==
  LET e == chooseVariant(Engine)
  IN  /\ Store(e)
      /\ out' = Seen("chooseVariant", FALSE, e, NotInvoked)
      /\ UNCHANGED <<impl, hostSamples, switchQualityCallback, downloadedSegments,
                     failedSegments, lastDownloadedSegmentsCount, now, stopped>>

\* segmentDownloaded(deltaTimeMs, numBytes, allowSwitch, request)
SegmentDownloadedWith(deltaTimeMs, allowSwitch, request, maxEvents) ==
  \E sample \in IF evaluatesOnDownload(allowSwitch) THEN Fullness(hostSamples) ELSE {0} :
    LET e == IF evaluatesOnDownload(allowSwitch)
             THEN startMonitoringBuffer(Engine, sample) ELSE Engine
        \* request.timeToFirstByte of an undefined request throws
        done == IF ~e.err /\ request = Undefined
                THEN Throw(e, "segmentDownloaded") ELSE e
    IN  /\ Store(done)
        /\ IF done.err
           THEN downloadedSegments' = downloadedSegments
           ELSE /\ TelemetryEvents < maxEvents
                /\ downloadedSegments' = Append(downloadedSegments,
                     segmentData(impl, deltaTimeMs, request, now - deltaTimeMs, now))
        /\ out' = Seen("segmentDownloaded", allowSwitch, done, NotInvoked)
        /\ UNCHANGED <<impl, hostSamples, switchQualityCallback, failedSegments,
                       lastDownloadedSegmentsCount, now, stopped>>

SegmentDownloadedOn(allowSwitch, request, maxEvents) ==
  \E deltaTimeMs \in DeltaTimes :
    SegmentDownloadedWith(deltaTimeMs, allowSwitch, request, maxEvents)

SegmentDownloaded(maxEvents) ==
  \E allowSwitch \in BOOLEAN, request \in Requests :
    SegmentDownloadedOn(allowSwitch, request, maxEvents)

\* The setInterval callback of startMonitoring(), one period after the last.
\* The page is taken to hold the element "liveLatency" that
\* displayToContainer() writes to.
MonitorTick(maxEvents) ==
  /\ TelemetryEvents < maxEvents
  /\ now' = now + monitorPeriod(impl)
  /\ lastDownloadedSegmentsCount' = Len(recentSegments(downloadedSegments, now'))
  /\ IF impl = 1
     THEN \* new DisplayStats(stats).displayToContainer() reads
          \* this.liveLatency.averageLatency
          LET stats == getLatencyStatistics(downloadedSegments)
          IN  out' = Seen("tick", FALSE,
                          IF stats = Null THEN Throw(Engine, "displayToContainer")
                          ELSE Engine,
                          stats)
     ELSE \* console.log(this.calculateDelay()): nothing is reported
          out' = Seen("tick", FALSE, Engine, NotInvoked)
  /\ UNCHANGED <<impl, hostSamples, switchQualityCallback, videoVariants, config_,
                 currentQualityIndex, bufferLevel, downloadedSegments,
                 failedSegments, stopped>>

\* The response filter setupErrorHandling() registers (first definition only).
ResponseFilterOn(response, maxEvents) ==
  /\ impl = 1
  /\ IF isFailure(response.status)
     THEN /\ TelemetryEvents < maxEvents
          /\ failedSegments' = Append(failedSegments,
               [uri |-> response.uri, timestamp |-> now, status |-> response.status])
     ELSE failedSegments' = failedSegments
  /\ out' = Seen("responseFilter", FALSE, Engine, NotInvoked)
  /\ UNCHANGED <<impl, hostSamples, switchQualityCallback, videoVariants, config_,
                 currentQualityIndex, bufferLevel, downloadedSegments,
                 lastDownloadedSegmentsCount, now, stopped>>

ResponseFilter(maxEvents) ==
  \E response \in Responses : ResponseFilterOn(response, maxEvents)

\* addSegment(type, time): pushes {type, time} onto downloadedSegments.
AddSegment(maxEvents) ==
  /\ TelemetryEvents < maxEvents
  /\ downloadedSegments' = Append(downloadedSegments, [type |-> "video", time |-> now])
  /\ out' = Seen("addSegment", FALSE, Engine, NotInvoked)
  /\ UNCHANGED <<impl, hostSamples, switchQualityCallback, videoVariants, config_,
                 currentQualityIndex, bufferLevel, failedSegments,
                 lastDownloadedSegmentsCount, now, stopped>>

Next ==
  \/ InitEngine
  \/ Configure
  \/ SetVariants
  \/ Stop
  \/ EvaluateBuffer
  \/ ChooseVariantCall
  \/ SegmentDownloaded(MaxEvents)
  \/ MonitorTick(MaxEvents)
  \/ ResponseFilter(MaxEvents)

Spec == Init /\ [][Next]_vars

----------------------------------------------------------------------------
(***************************************************************************)
(* The telemetry store with all of its writers, addSegment included, and   *)
(* downloads of different durations.  The catalog stays empty here, so the *)
(* evaluation a download triggers selects nothing.                         *)
(***************************************************************************)
\* Bound: the telemetry events of a run of SpecTelemetry.
MaxRecords == 3

\* Durations that give latencies 10, 20 and 30 with the time to first byte
\* of the request of Requests.
TelemetryDeltaTimes == {0, 10, 20}

SegmentDownloadedTelemetry ==
  \E deltaTimeMs \in TelemetryDeltaTimes, allowSwitch \in BOOLEAN, request \in Requests :
    SegmentDownloadedWith(deltaTimeMs, allowSwitch, request, MaxRecords)

NextTelemetry ==
  \/ SegmentDownloadedTelemetry
  \/ AddSegment(MaxRecords)
  \/ MonitorTick(MaxRecords)
  \/ Stop

SpecTelemetry == Init /\ [][NextTelemetry]_vars

----------------------------------------------------------------------------
(***************************************************************************)
(* The engine on a catalog that is set once and then stays, with a host    *)
(* whose buffer settles: from some point on every sample is above the high *)
(* threshold, or every sample is below the low one.  Evaluations keep      *)
(* occurring: the host calls startMonitoringBuffer() again as long as a    *)
(* call would still move the index.                                        *)
(***************************************************************************)
\* setVariants(variants) on an engine that has no variants yet.
SetVariantsOnce ==
  /\ videoVariants = <<>>
  /\ SetVariants

\* The host's buffer settles, the engine being configured (a configuration
\* set, a switch callback registered) and holding a catalog.
Settle ==
  /\ hostSamples = "any"
  /\ config_ # Null
  /\ switchQualityCallback = "cb"
  /\ videoVariants # <<>>
  /\ hostSamples' \in {"above", "below"}
  /\ out' = Seen("settle", FALSE, Engine, NotInvoked)
  /\ UNCHANGED <<impl, switchQualityCallback, videoVariants, config_,
                 currentQualityIndex, bufferLevel, downloadedSegments,
                 failedSegments, lastDownloadedSegmentsCount, now, stopped>>

NextConverge ==
  \/ InitEngine
  \/ Configure
  \/ SetVariantsOnce
  \/ EvaluateBuffer
  \/ SegmentDownloaded(MaxEvents)
  \/ Settle

\* Some sample the host can now report makes startMonitoringBuffer() move
\* currentQualityIndex: a high one below the top rank, a low one above rank 0.
EvaluationMovesIndex ==
  \/ /\ \E sample \in Fullness(hostSamples) : isHighBuffer(toFixed1(sample))
     /\ currentQualityIndex < maxQualityIndex(videoVariants)
  \/ /\ \E sample \in Fullness(hostSamples) : isLowBuffer(toFixed1(sample))
     /\ canDecrease(currentQualityIndex)

\* Weak fairness of the evaluations that move the index, its enabling
\* condition written as the state predicate EvaluationMovesIndex: either
\* again and again no evaluation would move the index, or again and again one
\* does.
EvaluationsKeepOccurring ==
  \/ []<>(~EvaluationMovesIndex)
  \/ []<><<EvaluateBuffer /\ currentQualityIndex' # currentQualityIndex>>_vars

SpecConverge == Init /\ [][NextConverge]_vars /\ EvaluationsKeepOccurring

----------------------------------------------------------------------------
\* What the claims speak of.

\* restrictions.maxBandwidth of a configuration object.
Cap(cfg) == cfg.restrictions.maxBandwidth

\* The variant of rank i in ascending-bandwidth order, or Undefined.
Rank(variants, i) == ElementAt(SortByBandwidth(variants), i)

\* A step in which startMonitoringBuffer() ran: called directly or from
\* segmentDownloaded with allowSwitch = true.
EvaluationStep ==
  \/ out'.op = "startMonitoringBuffer"
  \/ out'.op = "segmentDownloaded" /\ out'.allowSwitch

\* The same, the download handler's own failure on an undefined request apart:
\* what is seen of these steps is what startMonitoringBuffer() did.
EvaluationCall == EvaluationStep /\ out'.thrownIn # "segmentDownloaded"

InDeadZone(level) == lowBufferThreshold <= level /\ level <= highBufferThreshold

\* C1: every evaluateBuffer call changes currentQualityIndex by at most 1 and
\* leaves it within [0, catalogSize-1].  (Stated for the calls made on a
\* non-empty catalog: on an empty one no index is in that range.)
C1_StepAndRange ==
  [][EvaluationStep =>
       /\ currentQualityIndex' - currentQualityIndex \in {-1, 0, 1}
       /\ Len(videoVariants') > 0 =>
            /\ 0 <= currentQualityIndex'
            /\ currentQualityIndex' <= Len(videoVariants') - 1]_vars

\* C2: an evaluateBuffer call whose bufferLevel lies between the two
\* thresholds, the thresholds included, changes neither currentQualityIndex
\* nor restrictions.maxBandwidth nor restrictToScreenSize.
C2_DeadZoneHolds ==
  [][(EvaluationStep /\ InDeadZone(bufferLevel')) =>
       /\ currentQualityIndex' = currentQualityIndex
       /\ (config_ = Null) = (config_' = Null)
       /\ config_ # Null =>
            /\ Cap(config_') = Cap(config_)
            /\ config_'.restrictToScreenSize = config_.restrictToScreenSize]_vars

\* C2's case: a call at the low threshold itself held rank 1 and its cap.
C2_Witness ==
  /\ out.op = "startMonitoringBuffer"
  /\ bufferLevel = lowBufferThreshold
  /\ currentQualityIndex = 1
  /\ config_ # Null
  /\ Cap(config_) = 500

\* C3: with a configuration set and n variants, an evaluateBuffer call with
\* bufferLevel above the high threshold at index i < n-1 moves to i+1 and
\* caps the bandwidth at that of rank i+1; at i = n-1 it changes neither.
\* On the catalog 100, 500, 1000 that is 0 -> (1, 500) -> (2, 1000) -> (2, same).
C3_StepUp ==
  [][(EvaluationStep /\ config_ # Null /\ bufferLevel' > highBufferThreshold) =>
       LET n == Len(videoVariants)
           i == currentQualityIndex
           ranked == SortByBandwidth(videoVariants)
       IN  /\ i < n - 1 =>
                /\ currentQualityIndex' = i + 1
                /\ Cap(config_') = ranked[i + 2].bandwidth
           /\ i = n - 1 =>
                /\ currentQualityIndex' = i
                /\ Cap(config_') = Cap(config_)
           /\ ranked = <<[bandwidth |-> 100], [bandwidth |-> 500],
                         [bandwidth |-> 1000]>> =>
                /\ i = 0 => (currentQualityIndex' = 1 /\ Cap(config_') = 500)
                /\ i = 1 => (currentQualityIndex' = 2 /\ Cap(config_') = 1000)
                /\ i = 2 => (currentQualityIndex' = 2
                             /\ Cap(config_') = Cap(config_))]_vars

\* C3's case: a call above the high threshold has reached the top rank of
\* the catalog 100, 500, 1000 with the cap at 1000.
C3_Witness ==
  /\ out.op = "startMonitoringBuffer"
  /\ bufferLevel > highBufferThreshold
  /\ Len(videoVariants) = 3
  /\ currentQualityIndex = 2
  /\ config_ # Null
  /\ Cap(config_) = 1000

\* C4: with a configuration set, an evaluateBuffer call with bufferLevel below
\* the low threshold at index i > 0 moves to exactly i-1 and caps the
\* bandwidth at that of the variant of rank i-1; at i = 0 it changes neither.
C4_StepDown ==
  [][(EvaluationStep /\ config_ # Null /\ bufferLevel' < lowBufferThreshold) =>
       LET i == currentQualityIndex
           v == Rank(videoVariants, i - 1)
       IN  /\ i > 0 =>
                /\ currentQualityIndex' = i - 1
                /\ v # Undefined
                /\ Cap(config_') = v.bandwidth
           /\ i = 0 =>
                /\ currentQualityIndex' = 0
                /\ Cap(config_') = Cap(config_)]_vars

\* C5: on an empty catalog every evaluateBuffer call yields no selection,
\* does not invoke the switch callback and ends without an error.
C5_EmptyCatalogQuiet ==
  [][(EvaluationCall /\ videoVariants = <<>>) =>
       /\ out'.sel = Undefined
       /\ out'.calls = <<>>
       /\ ~out'.err]_vars

\* C6: segmentDownloaded with allowSwitch = true runs startMonitoringBuffer
\* exactly once; with allowSwitch = false it runs it not at all, so the
\* index, the buffer level and the configuration stay and no switch is made.
C6_OneEvaluationPerSwitchableSegment ==
  [][out'.op = "segmentDownloaded" =>
       /\ out'.allowSwitch =>
            /\ out'.evals = 1
            /\ \E sample \in Samples : bufferLevel' = toFixed1(sample)
       /\ ~out'.allowSwitch =>
            /\ out'.evals = 0
            /\ currentQualityIndex' = currentQualityIndex
            /\ bufferLevel' = bufferLevel
            /\ config_' = config_
            /\ out'.calls = <<>>]_vars

\* C6's case: a segment that may not switch was recorded at rank 1, the
\* buffer level and the cap being what the last evaluation left.
C6_Witness ==
  /\ out.op = "segmentDownloaded"
  /\ ~out.allowSwitch
  /\ out.evals = 0
  /\ ~out.err
  /\ Len(downloadedSegments) = 2
  /\ currentQualityIndex = 1
  /\ config_ # Null
  /\ Cap(config_) = 500

\* C7: once stop() has returned, the monitor's timer does not tick and the
\* switch callback is not invoked.
C7_QuietAfterStop ==
  [][stopped =>
       /\ out'.op # "tick"
       /\ out'.calls = <<>>]_vars

\* C8: every evaluateBuffer call that selects a variant invokes the switch
\* callback exactly once, with the variant of rank currentQualityIndex and the
\* safeMarginSwitch and clearBufferSwitch of the configuration.
C8_SwitchOnEverySelection ==
  [][(EvaluationCall /\ out'.sel # Undefined) =>
       /\ Len(out'.calls) = 1
       /\ out'.calls[1].variant = Rank(videoVariants', currentQualityIndex')
       /\ config_' # Null
       /\ out'.calls[1].safeMarginSwitch = config_'.safeMarginSwitch
       /\ out'.calls[1].clearBufferSwitch = config_'.clearBufferSwitch]_vars

\* C8 as amended: the same for the calls made while a configuration is set
\* and a switch callback is registered; a call that selects a variant while
\* either is missing ends in a TypeError and invokes nothing.
C8_SwitchOnSelectionWhenSetUp ==
  [][(EvaluationCall /\ out'.sel # Undefined) =>
       IF config_ # Null /\ switchQualityCallback = "cb"
       THEN /\ ~out'.err
            /\ Len(out'.calls) = 1
            /\ out'.calls[1].variant = Rank(videoVariants', currentQualityIndex')
            /\ out'.calls[1].safeMarginSwitch = config_'.safeMarginSwitch
            /\ out'.calls[1].clearBufferSwitch = config_'.clearBufferSwitch
       ELSE /\ out'.err
            /\ out'.calls = <<>>]_vars

\* C8's case: a hold decision at rank 1 handed the 500 variant to the
\* callback with the flags of the second configuration.
C8_Witness ==
  /\ out.op = "startMonitoringBuffer"
  /\ InDeadZone(bufferLevel)
  /\ currentQualityIndex = 1
  /\ Len(out.calls) = 1
  /\ out.calls[1].variant = [bandwidth |-> 500]
  /\ out.calls[1].safeMarginSwitch = 1
  /\ out.calls[1].clearBufferSwitch

\* C9: every tick of the monitor hands the statistics sink the latency
\* statistics, or "no data" (null) on an empty store, and ends without error.
C9_TickReports ==
  [][out'.op = "tick" =>
       /\ ~out'.err
       /\ out'.report = getLatencyStatistics(downloadedSegments)]_vars

\* C10: the response filter appends one record {uri, timestamp, status} for a
\* status of 400 or more and nothing below 400, and no step removes or
\* rewrites a record of failedSegments.
C10_FailuresFrom400 ==
  [][/\ \A response \in Responses :
          (out'.op = "responseFilter" /\ ResponseFilterOn(response, MaxEvents)) =>
            IF response.status >= 400
            THEN failedSegments' = Append(failedSegments,
                   [uri |-> response.uri, timestamp |-> now,
                    status |-> response.status])
            ELSE failedSegments' = failedSegments
     /\ Len(failedSegments) <= Len(failedSegments')
     /\ SubSeq(failedSegments', 1, Len(failedSegments)) = failedSegments]_vars

\* C10's case: a second response of status 400 was recorded after the first.
C10_Witness ==
  /\ out.op = "responseFilter"
  /\ Len(failedSegments) = 2
  /\ failedSegments[2].status = 400
  /\ failedSegments[2].uri = "seg3"

\* C11: getLatencyStatistics returns null while no segment has been recorded,
\* and otherwise the arithmetic mean, the minimum and the maximum of the
\* latencies of all the records of downloadedSegments; on latencies 10, 20, 30
\* that is average 20, min 10, max 30.
C11_LatencyStatistics ==
  LET stats == getLatencyStatistics(downloadedSegments)
      n == Len(downloadedSegments)
  IN  /\ n = 0 => stats = Null
      /\ n > 0 =>
           /\ stats # Null
           /\ stats.averageLatency # NaN
           /\ stats.averageLatency.num * n =
                stats.averageLatency.den * SumLatency(downloadedSegments)
           /\ \E i \in 1..n : stats.minLatency = downloadedSegments[i].latency
           /\ \E i \in 1..n : stats.maxLatency = downloadedSegments[i].latency
           /\ \A i \in 1..n :
                /\ stats.minLatency <= downloadedSegments[i].latency
                /\ downloadedSegments[i].latency <= stats.maxLatency
      /\ getLatencyStatistics(<<[latency |-> 10], [latency |-> 20], [latency |-> 30]>>)
           = [averageLatency |-> [num |-> 20, den |-> 1],
              maxLatency |-> 30, minLatency |-> 10]

\* C12: whenever the engine looks a variant up by rank on a non-empty
\* catalog (in startMonitoringBuffer or chooseVariant, whatever setVariants
\* and stop did before), the rank it looks up is within the catalog:
\* 0 <= currentQualityIndex < catalog length.
C12_LookupInRange ==
  [][((EvaluationStep \/ out'.op = "chooseVariant") /\ videoVariants # <<>>) =>
       currentQualityIndex' \in 0..(Len(videoVariants) - 1)]_vars

\* C13: every segmentDownloaded call, for allowSwitch true or false and
\* whatever its evaluation does, leaves downloadedSegments one record longer,
\* the records before it as they were.
C13_RecordPerDownload ==
  [][out'.op = "segmentDownloaded" =>
       /\ Len(downloadedSegments') = Len(downloadedSegments) + 1
       /\ SubSeq(downloadedSegments', 1, Len(downloadedSegments)) = downloadedSegments]_vars

\* C14: with a configuration set, every evaluation that moves
\* currentQualityIndex up leaves restrictToScreenSize = true in it, and one
\* that moves the index down or holds it leaves restrictToScreenSize as it was.
C14_UpwardStepRestrictsToScreen ==
  [][(EvaluationStep /\ config_ # Null) =>
       IF currentQualityIndex' > currentQualityIndex
       THEN config_'.restrictToScreenSize
       ELSE config_'.restrictToScreenSize = config_.restrictToScreenSize]_vars

\* C15: every tick of the monitor runs startMonitoringBuffer once, on the
\* host's latest buffer fullness.
C15_TickEvaluates ==
  [][out'.op = "tick" =>
       /\ out'.evals = 1
       /\ \E sample \in Samples : bufferLevel' = toFixed1(sample)]_vars

C17_CatalogNotMutated ==
  [][videoVariants' # videoVariants => out'.op \in {"setVariants", "stop"}]_vars

\* A sequence that starts with all of another, in its order.
StartsWith(after, before) ==
  /\ Len(before) <= Len(after)
  /\ SubSeq(after, 1, Len(before)) = before

\* C18: no step removes or changes a record of downloadedSegments or of
\* failedSegments; startMonitoringBuffer, chooseVariant, the tick with its
\* 5000 ms filter, setVariants, configure, init and stop leave both stores
\* exactly as they were.
C18_TelemetryAppendOnly ==
  [][/\ StartsWith(downloadedSegments', downloadedSegments)
     /\ StartsWith(failedSegments', failedSegments)
     /\ out'.op \in {"startMonitoringBuffer", "chooseVariant", "tick",
                     "setVariants", "configure", "init", "stop"} =>
          /\ downloadedSegments' = downloadedSegments
          /\ failedSegments' = failedSegments]_vars

\* C18's case: stop() has cleared the callback and the variants of an engine
\* that was at rank 1, and the segment and the failure recorded before are
\* still there.
C18_Witness ==
  /\ out.op = "stop"
  /\ switchQualityCallback = "null"
  /\ videoVariants = <<>>
  /\ currentQualityIndex = 1
  /\ Len(downloadedSegments) = 1
  /\ Len(failedSegments) = 1

\* C19: on a configured engine with a catalog of n variants that stays,
\* once every sample is above the high threshold currentQualityIndex
\* eventually is n-1 and stays n-1, each evaluation until then moving it up
\* by exactly one rank; once every sample is below the low threshold it
\* eventually is 0 and stays 0, each evaluation until then moving it down by
\* exactly one rank.
C19_Converges ==
  /\ [](hostSamples = "above" =>
          <>[](currentQualityIndex = Len(videoVariants) - 1))
  /\ [](hostSamples = "below" => <>[](currentQualityIndex = 0))
  /\ [][(EvaluationStep /\ hostSamples = "above") =>
          currentQualityIndex' =
            IF currentQualityIndex < Len(videoVariants) - 1
            THEN currentQualityIndex + 1 ELSE Len(videoVariants) - 1]_vars
  /\ [][(EvaluationStep /\ hostSamples = "below") =>
          currentQualityIndex' =
            IF currentQualityIndex > 0 THEN currentQualityIndex - 1 ELSE 0]_vars

\* C19's case: with every sample above the high threshold the index has
\* reached the top rank of three, the cap at that rank's bandwidth.
C19_Witness ==
  /\ hostSamples = "above"
  /\ out.op = "startMonitoringBuffer"
  /\ Len(videoVariants) = 3
  /\ currentQualityIndex = 2
  /\ Cap(config_) = 1000

\* C20: after a step of the quality index on a configured engine, the
\* catalog being the one the step worked on, rank currentQualityIndex exists
\* and restrictions.maxBandwidth is that rank's bandwidth.
C20_CapMatchesSelection ==
  [][((EvaluationStep \/ out'.op = "chooseVariant")
        /\ config_ # Null
        /\ currentQualityIndex' # currentQualityIndex)
      => /\ Rank(videoVariants', currentQualityIndex') # Undefined
         /\ Cap(config_') = Rank(videoVariants', currentQualityIndex').bandwidth]_vars

====
